---- MODULE Spec2Model ----
(***************************************************************************)
(* microgpt.ts: the scalar autograd engine (class Value and its backward   *)
(* pass), the sampler's weightedChoice, and the control flow of main():    *)
(* the training loop, the gpt() forward pass with its per-layer key/value  *)
(* caches, the Adam loop and the autoregressive sampling loop.             *)
(*                                                                         *)
(* Three state machines share the module:                                  *)
(*   BackwardSpec  Value.backward() on a graph built by the Value          *)
(*                 operators (integer data, so the arithmetic is exact);   *)
(*   ChoiceSpec    weightedChoice on rational weights and draws;           *)
(*   Spec          main(): training steps, then sampling.                  *)
(* Floating-point values that main() computes (activations, losses, the    *)
(* Adam moments) are not representable; where a variable stands for one,   *)
(* the comment at its declaration says what it records instead.            *)
(***************************************************************************)
EXTENDS Integers, Sequences, FiniteSets, TLC

VARIABLES
    \* ---- Value.backward() ----
    G,          \* the arena of Value objects: G[i] = [data, children, localGrads]
    grad,       \* grad[i]: the grad field of node i
    root,       \* the node backward() was called on ("this")
    bpc,        \* "idle" | "topo" | "prop" | "done"
    stack,      \* the call stack of buildTopo: frames [v, k]
    visited,    \* the Set<Value> of line 105
    topo,       \* the array of line 104
    bi,         \* loop index i of line 119 (1-based position in topo)
    bj,         \* loop index j of line 121 (1-based)
    processed   \* history: the nodes whose inner loop (lines 121-123) has
                \* completed, in the order they completed

VARIABLES
    \* ---- weightedChoice ----
    cw,         \* the argument weights (a sequence of naturals)
    cu,         \* the draw rng() = cu / UDen
    cres,       \* the returned index (0-based), -1 before the call returns
    cpc         \* "call" | "ret" | "idle"

VARIABLES
    \* ---- main() ----
    pc,         \* the position in main(), see the actions
    caller,     \* which loop called gpt(): "train" | "sample"
    docs,       \* the shuffled corpus: a sequence of documents, each a sequence
                \* of UTF-16 code units (positive integers)
    uchars,     \* line 170: the sorted distinct characters of the corpus
    step,       \* the training loop's step
    tokens,     \* line 280 (token ids are 0-based values, the sequence 1-based)
    n,          \* line 281
    posId,      \* the position loops' posId (0-based)
    tokenId,    \* the token passed to gpt(), or the sampled token
    targetId,   \* line 289
    keys,       \* keys[l]: the key cache of layer l; an entry is recorded as
                \* [seq, pos]: the sequence and position whose key vector it is
    vals,       \* vals[l]: the value cache of layer l, same representation
    li,         \* gpt()'s layer index (1-based)
    attn,       \* attn[h]: the key and value entries head h attended over in
                \* the last attention computed (kH and vH of lines 235-236)
    losses,     \* line 285; a loss term is recorded as [pos, tokenId, targetId]
    lossDenom,  \* the n of "mul(1 / n)" in line 295, 0 before the first loss
    pgrad,      \* pgrad[i]: params[i].grad (a small integer stands for the real)
    pdata,      \* pdata[i]: the number of assignments made to params[i].data
    adamM,      \* adamM[i]: the number of assignments made to m[i] (line 301)
    adamV,      \* adamV[i]: the number of assignments made to v[i] (line 302)
    pi,         \* the Adam loop's i (1-based)
    lrT,        \* line 298, in units of learningRate / numSteps (see LrT)
    sampleIdx,  \* the inference loop's sampleIdx
    sample      \* line 324

bvars == <<G, grad, root, bpc, stack, visited, topo, bi, bj, processed>>
cvars == <<cw, cu, cres, cpc>>
mvars == <<pc, caller, docs, uchars, step, tokens, n, posId, tokenId, targetId,
           keys, vals, li, attn, losses, lossDenom, pgrad, pdata, adamM, adamV, pi, lrT,
           sampleIdx, sample>>

vars == <<bvars, cvars, mvars>>

\* ------------------------------------------------------------------------
\* Bounds of the model
\* ------------------------------------------------------------------------
MaxNodes == 3       \* nodes of an enumerated graph
MaxData == 1        \* leaf data ranges over -1..MaxData

DataVals == (-1)..MaxData

\* ------------------------------------------------------------------------
\* The values the variables of a machine hold while another machine runs
\* ------------------------------------------------------------------------
BIdle ==
    /\ G = <<>> /\ grad = <<>> /\ root = 0 /\ bpc = "off" /\ stack = <<>>
    /\ visited = {} /\ topo = <<>> /\ bi = 0 /\ bj = 0 /\ processed = <<>>

CIdle == cw = <<>> /\ cu = 0 /\ cres = -1 /\ cpc = "idle"

MIdle ==
    /\ pc = "off" /\ caller = "none" /\ docs = <<>> /\ uchars = <<>> /\ step = 0
    /\ tokens = <<>> /\ n = 0 /\ posId = 0 /\ tokenId = 0 /\ targetId = 0
    /\ keys = <<>> /\ vals = <<>> /\ li = 0 /\ attn = <<>> /\ losses = <<>>
    /\ lossDenom = 0 /\ pgrad = <<>> /\ pdata = <<>> /\ adamM = <<>> /\ adamV = <<>>
    /\ pi = 0 /\ lrT = 0 /\ sampleIdx = 0 /\ sample = <<>>

\* ------------------------------------------------------------------------
\* class Value: constructor and operators (lines 57-87)
\* ------------------------------------------------------------------------
NewValue(d) == [data |-> d, children |-> <<>>, localGrads |-> <<>>]

ValueAdd(A, t, o) ==
    [data |-> A[t].data + A[o].data, children |-> <<t, o>>,
     localGrads |-> <<1, 1>>]

ValueMul(A, t, o) ==
    [data |-> A[t].data * A[o].data, children |-> <<t, o>>,
     localGrads |-> <<A[o].data, A[t].data>>]

ValueRelu(A, t) ==
    [data |-> IF A[t].data > 0 THEN A[t].data ELSE 0, children |-> <<t>>,
     localGrads |-> <<IF A[t].data > 0 THEN 1 ELSE 0>>]

\* Every value one more operation can add to arena A.
Extensions(A) ==
    {NewValue(d) : d \in DataVals}
    \cup {ValueAdd(A, t, o) : t \in 1..Len(A), o \in 1..Len(A)}
    \cup {ValueMul(A, t, o) : t \in 1..Len(A), o \in 1..Len(A)}
    \cup {ValueRelu(A, t) : t \in 1..Len(A)}

\* All arenas of 1..n values: a value is only built from existing values.
RECURSIVE Arenas(_)
Arenas(cnt) ==
    IF cnt = 0 THEN {<<>>}
    ELSE LET P == Arenas(cnt - 1)
         IN  P \cup UNION {{Append(A, x) : x \in Extensions(A)} :
                            A \in {B \in P : Len(B) = cnt - 1}}

\* c = a.mul(a).add(a.mul(b)), nodes in creation order: a, b, a*a, a*b, c.
ExprArena(a, b) ==
    LET A2 == <<NewValue(a), NewValue(b)>>
        A3 == Append(A2, ValueMul(A2, 1, 1))
        A4 == Append(A3, ValueMul(A3, 1, 2))
    IN  Append(A4, ValueAdd(A4, 3, 4))

IsExpr == Len(G) = 5 /\ \E a \in DataVals, b \in DataVals : G = ExprArena(a, b)

\* ------------------------------------------------------------------------
\* Value.backward() (lines 103-125)
\* ------------------------------------------------------------------------
Children(v) == G[v].children
NumChildren(v) == Len(G[v].children)
Top == stack[Len(stack)]
Pop(s) == SubSeq(s, 1, Len(s) - 1)

BInit ==
    /\ \/ G \in (Arenas(MaxNodes) \ {<<>>})
       \/ G \in {ExprArena(a, b) : a \in DataVals, b \in DataVals}
    /\ root \in 1..Len(G)
    /\ grad = [i \in 1..Len(G) |-> 0]
    /\ bpc = "idle"
    /\ stack = <<>>
    /\ visited = {}
    /\ topo = <<>>
    /\ bi = 0
    /\ bj = 0
    /\ processed = <<>>
    /\ CIdle /\ MIdle

\* lines 104-105, 117: fresh topo and visited, then the call buildTopo(this)
BackwardCall ==
    /\ bpc = "idle"
    /\ bpc' = "topo"
    /\ topo' = <<>>
    /\ visited' = {}
    /\ stack' = <<[v |-> root, k |-> 0]>>
    /\ UNCHANGED <<G, grad, root, bi, bj, processed, cvars, mvars>>

\* Faulty variant: buildTopo without the visited test
BuildTopoEnterNoVisited ==
    /\ bpc = "topo" /\ stack # <<>> /\ Top.k = 0
    /\ visited' = visited \cup {Top.v}
    /\ stack' = [stack EXCEPT ![Len(stack)].k = 1]
    /\ UNCHANGED <<G, grad, root, bpc, topo, bi, bj, processed, cvars, mvars>>

\* lines 108-109: a visited node returns at once, a new one is marked
BuildTopoEnter ==
    /\ bpc = "topo" /\ stack # <<>> /\ Top.k = 0
    /\ IF Top.v \in visited
       THEN /\ stack' = Pop(stack)
            /\ visited' = visited
       ELSE /\ visited' = visited \cup {Top.v}
            /\ stack' = [stack EXCEPT ![Len(stack)].k = 1]
    /\ UNCHANGED <<G, grad, root, bpc, topo, bi, bj, processed, cvars, mvars>>

\* lines 110-112: the recursive call on the next child
BuildTopoRecurse ==
    /\ bpc = "topo" /\ stack # <<>>
    /\ Top.k >= 1 /\ Top.k <= NumChildren(Top.v)
    /\ stack' = Append([stack EXCEPT ![Len(stack)].k = @ + 1],
                       [v |-> Children(Top.v)[Top.k], k |-> 0])
    /\ UNCHANGED <<G, grad, root, bpc, visited, topo, bi, bj, processed, cvars, mvars>>

\* line 113: children done, record the node and return
BuildTopoPush ==
    /\ bpc = "topo" /\ stack # <<>>
    /\ Top.k = NumChildren(Top.v) + 1
    /\ topo' = Append(topo, Top.v)
    /\ stack' = Pop(stack)
    /\ UNCHANGED <<G, grad, root, bpc, visited, bi, bj, processed, cvars, mvars>>

\* Faulty variant: the propagation loop walks topo front to back
TopoLoopForward ==
    [first |-> 1, next |-> IF bi = Len(topo) THEN 0 ELSE bi + 1]

\* line 119: for (let i = topo.length - 1; i >= 0; i--), with 1-based indices:
\* the first index and the index after bi
TopoLoop == [first |-> Len(topo), next |-> bi - 1]

\* lines 118-119: buildTopo has returned; seed the root and start the loop
Seed ==
    /\ bpc = "topo" /\ stack = <<>>
    /\ grad' = [grad EXCEPT ![root] = 1]
    /\ bi' = TopoLoop.first
    /\ bj' = 1
    /\ bpc' = "prop"
    /\ UNCHANGED <<G, root, stack, visited, topo, processed, cvars, mvars>>

\* Faulty variant: the accumulation overwrites instead of adding
AccumulateAssign(g, child, lg, vg) == [g EXCEPT ![child] = lg * vg]

\* line 122: child.grad += localGrad * v.grad
Accumulate(g, child, lg, vg) == [g EXCEPT ![child] = @ + lg * vg]

\* lines 121-123: one iteration of the inner loop
PropagateEdge ==
    /\ bpc = "prop" /\ bi >= 1 /\ bi <= Len(topo)
    /\ bj <= NumChildren(topo[bi])
    /\ LET v == topo[bi]
       IN  grad' = Accumulate(grad, Children(v)[bj], G[v].localGrads[bj], grad[v])
    /\ bj' = bj + 1
    /\ UNCHANGED <<G, root, bpc, stack, visited, topo, bi, processed, cvars, mvars>>

\* line 119: i--
PropagateNext ==
    /\ bpc = "prop" /\ bi >= 1 /\ bi <= Len(topo)
    /\ bj > NumChildren(topo[bi])
    /\ bi' = TopoLoop.next
    /\ bj' = 1
    /\ processed' = Append(processed, topo[bi])
    /\ UNCHANGED <<G, grad, root, bpc, stack, visited, topo, cvars, mvars>>

\* line 125: the loop is over
BackwardReturn ==
    /\ bpc = "prop" /\ (bi < 1 \/ bi > Len(topo))
    /\ bpc' = "done"
    /\ UNCHANGED <<G, grad, root, stack, visited, topo, bi, bj, processed, cvars, mvars>>

BNext ==
    \/ BackwardCall
    \/ BuildTopoEnter
    \/ BuildTopoRecurse
    \/ BuildTopoPush
    \/ Seed
    \/ PropagateEdge
    \/ PropagateNext
    \/ BackwardReturn

BackwardSpec == BInit /\ [][BNext]_vars /\ WF_vars(BNext)

\* ------------------------------------------------------------------------
\* Graph notions the claims about backward() are stated with
\* ------------------------------------------------------------------------
Nodes == 1..Len(G)
ChildSet(v) == {Children(v)[j] : j \in 1..NumChildren(v)}

\* The nodes reachable from v along child edges (children have smaller ids).
RECURSIVE ReachFrom(_)
ReachFrom(v) == {v} \cup UNION {ReachFrom(c) : c \in ChildSet(v)}

Reach == ReachFrom(root)
ReachParents(v) == {p \in Reach : v \in ChildSet(p)}
SeqRange(s) == {s[i] : i \in 1..Len(s)}
NoDuplicates(s) == \A i \in 1..Len(s), j \in 1..Len(s) : s[i] = s[j] => i = j

RECURSIVE SumTo(_, _)
SumTo(f, cnt) == IF cnt = 0 THEN 0 ELSE f[cnt] + SumTo(f, cnt - 1)

\* The sum of the local gradients of the edges p -> v (an edge may repeat).
EdgeWeight(p, v) ==
    SumTo([j \in 1..NumChildren(p) |->
              IF Children(p)[j] = v THEN G[p].localGrads[j] ELSE 0],
          NumChildren(p))

\* d root / d v by the chain rule over the graph alone: 1 at the root, else the
\* sum over every parent edge of localGrad * (d root / d parent).
RECURSIVE Deriv(_)
Deriv(v) ==
    IF v = root THEN 1
    ELSE IF v > root THEN 0
    ELSE SumTo([k \in 1..(root - v) |-> EdgeWeight(v + k, v) * Deriv(v + k)],
               root - v)

\* The node whose inner loop is running, if any.
Propagating == bpc = "prop" /\ bi >= 1 /\ bi <= Len(topo)

\* C1: whenever a node v is propagating to its children (lines 121-123), every
\* parent of v in the graph reachable from the root has already completed its
\* own propagation, no node completes twice, and v.grad already holds the full
\* sum of its parents' contributions.
C1_FullyAccumulatedBeforePropagate ==
    /\ NoDuplicates(processed)
    /\ Propagating =>
         LET v == topo[bi]
         IN  /\ v \notin SeqRange(processed)
             /\ ReachParents(v) \subseteq SeqRange(processed)
             /\ grad[v] = Deriv(v)

C1_Witness ==
    /\ Propagating /\ bj = 1
    /\ Cardinality(ReachParents(topo[bi])) >= 2
    /\ grad[topo[bi]] # 0

\* C2: after backward() on a graph whose grads were all 0, every node's grad is
\* the sum over its parent edges of localGrad * parent.grad (0 outside the
\* reachable graph, 1 at the root); for c = a.mul(a).add(a.mul(b)) this is
\* a.grad = 2*a.data + b.data and b.grad = a.data.
C2_SharedNodeAccumulation ==
    bpc = "done" =>
        /\ \A v \in Nodes : grad[v] = IF v \in Reach THEN Deriv(v) ELSE 0
        /\ \A v \in Reach \ {root} :
              grad[v] = SumTo([k \in 1..(root - v) |->
                                  IF v + k \in Reach
                                  THEN EdgeWeight(v + k, v) * grad[v + k] ELSE 0],
                              root - v)
        /\ (IsExpr /\ root = 5) =>
              /\ grad[1] = 2 * G[1].data + G[2].data
              /\ grad[2] = G[1].data

C2_Witness ==
    /\ bpc = "done" /\ IsExpr /\ root = 5
    /\ G[1].data = -1 /\ G[2].data = 1
    /\ grad[1] = -1 /\ grad[2] = -1

\* The state in which buildTopo(this) has returned.
TopoBuilt == bpc # "idle" /\ stack = <<>>

\* C8: buildTopo returns (the traversal terminates), and then topo holds every
\* node reachable from the root exactly once, every node after all of its
\* children, and the root last.
C8_TopoOrder ==
    /\ [](TopoBuilt =>
            /\ SeqRange(topo) = Reach
            /\ NoDuplicates(topo)
            /\ \A i \in 1..Len(topo) : \A c \in ChildSet(topo[i]) :
                  \E j \in 1..(i - 1) : topo[j] = c
            /\ topo[Len(topo)] = root)
    /\ [](bpc = "topo" => <>TopoBuilt)

C8_Witness ==
    /\ TopoBuilt
    /\ \E v \in Reach : Cardinality(ReachParents(v)) >= 2
    /\ \E p \in Reach : NumChildren(p) = 2 /\ Children(p)[1] = Children(p)[2]
    /\ Len(topo) = 5

\* ------------------------------------------------------------------------
\* weightedChoice (lines 39-47)
\* ------------------------------------------------------------------------
UDen == 4           \* a draw rng() is one of 0/UDen .. (UDen-1)/UDen
MaxW == 2           \* a weight ranges over 0..MaxW
MaxWLen == 3        \* weight vectors of ChoiceSpec have 1..MaxWLen entries

RECURSIVE SumSeq(_)
SumSeq(s) == IF s = <<>> THEN 0 ELSE Head(s) + SumSeq(Tail(s))

\* lines 42-46, with r held as r * UDen; i is the 1-based index of the loop
RECURSIVE ChoiceScan(_, _, _)
ChoiceScan(w, r, i) ==
    IF i > Len(w) THEN Len(w) - 1
    ELSE LET r2 == r - w[i] * UDen
         IN  IF r2 <= 0 THEN i - 1 ELSE ChoiceScan(w, r2, i + 1)

\* weightedChoice(weights) when rng() returns u / UDen: total (line 40),
\* r = rng() * total (line 41), then the scan
WeightedChoice(w, u) == ChoiceScan(w, u * SumSeq(w), 1)

\* The weight vectors of a given length with a positive total.
WeightVectors(len) == {w \in [1..len -> 0..MaxW] : SumSeq(w) > 0}

CInit ==
    /\ cw \in UNION {WeightVectors(len) : len \in 1..MaxWLen}
    /\ cu \in 0..(UDen - 1)
    /\ cres = -1
    /\ cpc = "call"
    /\ BIdle /\ MIdle

ChoiceCall ==
    /\ cpc = "call"
    /\ cres' = WeightedChoice(cw, cu)
    /\ cpc' = "ret"
    /\ UNCHANGED <<cw, cu, bvars, mvars>>

CNext == ChoiceCall

ChoiceSpec == CInit /\ [][CNext]_vars

\* ------------------------------------------------------------------------
\* main(): hyperparameters and corpus (lines 162-180, 270-276, 320)
\*
\* The corpus holds characters of the Basic Multilingual Plane only, as the
\* names corpus of line 157 does: one character is one UTF-16 code unit.
\* (Corpora with other characters are the subject of UnitSpec, further down.)
\* BLOCK_SIZE, numSteps and the sample count are scaled down from the source.
\* ------------------------------------------------------------------------
N_HEAD == 4
N_LAYER == 1
BLOCK_SIZE == 3     \* 16 in the source
numSteps == 3       \* 1000 in the source
NumSamples == 2     \* 20 in the source (the bound of the loop of line 320)
NumParams == 2      \* params.length, the flattened stateDict
MaxDocs == 2        \* documents of a corpus
MaxDocLen == 3      \* code units of a document
MaxChar == 2        \* distinct characters: code units 1..MaxChar
MaxAstral == 1      \* distinct characters outside the Basic Multilingual Plane
MaxCorpusChars == 3 \* characters of a corpus that has such characters
Undefined == -2     \* what reading an array out of its range yields

\* learningRate = 0.01 = learningRateNum / learningRateDen
learningRateNum == 1
learningRateDen == 100

Params == 1..NumParams
Layers == 1..N_LAYER
Min(a, b) == IF a <= b THEN a ELSE b

\* The document of a given length: MaxChar, MaxChar-1, .., 1, MaxChar, ..
DocOf(len) == [i \in 1..len |-> MaxChar - ((i - 1) % MaxChar)]
DocSet == {DocOf(len) : len \in 1..MaxDocLen}
\* lines 162-167: the non-empty trimmed lines, in any order after shuffle
Corpora == UNION {[1..k -> DocSet] : k \in 1..MaxDocs}

\* lines 170: [...new Set(docs.join(""))].sort()
RECURSIVE SortedSeq(_)
SortedSeq(S) ==
    IF S = {} THEN <<>>
    ELSE LET x == CHOOSE y \in S : \A z \in S : y <= z
         IN  <<x>> \o SortedSeq(S \ {x})

UChars(d) == SortedSeq(UNION {{d[k][i] : i \in 1..Len(d[k])} : k \in 1..Len(d)})

BOS == Len(uchars)
vocabSize == Len(uchars) + 1

\* s[i] for a 0-based index i, undefined outside the array
At(s, i) == IF i >= 0 /\ i < Len(s) THEN s[i + 1] ELSE Undefined

\* Array.prototype.indexOf: the first 0-based index of ch, or -1
IndexOf(s, ch) ==
    IF \E i \in 1..Len(s) : s[i] = ch
    THEN (CHOOSE i \in 1..Len(s) : s[i] = ch /\ \A j \in 1..(i - 1) : s[j] # ch) - 1
    ELSE -1

\* line 280
Tokenize(doc) ==
    <<BOS>> \o [i \in 1..Len(doc) |-> IndexOf(uchars, doc[i])] \o <<BOS>>

\* Faulty variant: the loop bound counts the last token too
TrainNAllTokens(toks) == Min(BLOCK_SIZE, Len(toks))

\* line 281
TrainN(toks) == Min(BLOCK_SIZE, Len(toks) - 1)

\* Faulty variant: the caches are allocated once and carried over
KeptCaches == [keys |-> keys, vals |-> vals]

\* lines 283-284 and 321-322: fresh per-layer caches
NewCaches == [keys |-> [l \in Layers |-> <<>>], vals |-> [l \in Layers |-> <<>>]]

\* The sequence being processed: a training step or a sample.
CurSeq == IF caller = "train" THEN step ELSE numSteps + sampleIdx
CacheEntry == [seq |-> CurSeq, pos |-> posId]

\* Faulty variant: only the key is appended
PushedKeyOnly ==
    [keys |-> [keys EXCEPT ![li] = Append(@, CacheEntry)], vals |-> vals]

\* lines 228-229
PushedCaches ==
    [keys |-> [keys EXCEPT ![li] = Append(@, CacheEntry)],
     vals |-> [vals EXCEPT ![li] = Append(@, CacheEntry)]]

\* Faulty variant: the rate reaches 0 at the last step
LrTToZeroAtLastStep(s) == learningRateNum * (numSteps - 1 - s)

\* line 298: learningRate * (1 - step / numSteps), as the numerator of a
\* fraction with denominator learningRateDen * numSteps
LrT(s) == learningRateNum * (numSteps - s)

\* The gradient backward() leaves in a parameter, as a small integer.
GradVals == 0..1

MInit ==
    /\ docs \in Corpora
    /\ uchars = UChars(docs)
    /\ pc = "train_loop"
    /\ caller = "none"
    /\ step = 0
    /\ tokens = <<>> /\ n = 0 /\ posId = 0 /\ tokenId = 0 /\ targetId = 0
    /\ keys = [l \in Layers |-> <<>>] /\ vals = [l \in Layers |-> <<>>]
    /\ li = 0
    /\ attn = [h \in 1..N_HEAD |-> [k |-> <<>>, v |-> <<>>]]
    /\ losses = <<>> /\ lossDenom = 0
    /\ pgrad = [i \in Params |-> 0]
    /\ pdata = [i \in Params |-> 0]
    /\ adamM = [i \in Params |-> 0]
    /\ adamV = [i \in Params |-> 0]
    /\ pi = 0 /\ lrT = 0 /\ sampleIdx = 0 /\ sample = <<>>
    /\ BIdle /\ CIdle

\* ------------------------------------------------------------------------
\* main(): the training loop (lines 278-314)
\* ------------------------------------------------------------------------

\* lines 278-285: the loop test holds; tokenize the step's document
TrainStepBegin ==
    /\ pc = "train_loop" /\ step < numSteps
    /\ tokens' = Tokenize(docs[(step % Len(docs)) + 1])
    /\ n' = TrainN(tokens')
    /\ keys' = NewCaches.keys
    /\ vals' = NewCaches.vals
    /\ losses' = <<>>
    /\ posId' = 0
    /\ caller' = "train"
    /\ pc' = "train_pos"
    /\ UNCHANGED <<docs, uchars, step, tokenId, targetId, li, attn,
                 lossDenom, pgrad, pdata, adamM, adamV, pi, lrT, sampleIdx,
                 sample, bvars, cvars>>

\* lines 287-290: the position loop's test holds; call gpt()
TrainForwardCall ==
    /\ pc = "train_pos" /\ posId < n
    /\ tokenId' = At(tokens, posId)
    /\ targetId' = At(tokens, posId + 1)
    /\ pc' = "gpt_enter"
    /\ UNCHANGED <<caller, docs, uchars, step, tokens, n, posId, keys, vals,
                 li, attn, losses, lossDenom, pgrad, pdata, adamM, adamV, pi,
                 lrT, sampleIdx, sample, bvars, cvars>>

\* lines 291-292: gpt() has returned; softmax, then the loss term. probs[targetId]
\* is undefined for a target outside the vocabulary and .log() on it throws.
TrainLossPush ==
    /\ pc = "train_ret"
    /\ IF targetId >= 0 /\ targetId < vocabSize
       THEN /\ losses' = Append(losses, [pos |-> posId, tokenId |-> tokenId,
                                         targetId |-> targetId])
            /\ posId' = posId + 1
            /\ pc' = "train_pos"
       ELSE /\ pc' = "crashed"
            /\ UNCHANGED <<losses, posId>>
    /\ UNCHANGED <<caller, docs, uchars, step, tokens, n, tokenId, targetId,
                 keys, vals, li, attn, lossDenom, pgrad, pdata, adamM, adamV,
                 pi, lrT, sampleIdx, sample, bvars, cvars>>

\* line 295: the position loop is over; the mean loss. reduce() of an empty
\* array without an initial value throws.
TrainLossMean ==
    /\ pc = "train_pos" /\ posId >= n
    /\ IF Len(losses) >= 1
       THEN /\ lossDenom' = n
            /\ pc' = "backward"
       ELSE /\ pc' = "crashed"
            /\ UNCHANGED lossDenom
    /\ UNCHANGED <<caller, docs, uchars, step, tokens, n, posId, tokenId,
                 targetId, keys, vals, li, attn, losses, pgrad, pdata, adamM,
                 adamV, pi, lrT, sampleIdx, sample, bvars, cvars>>

\* lines 296-298: loss.backward() accumulates into the grad of the parameters,
\* then lrT is computed and the Adam loop starts
TrainBackward ==
    /\ pc = "backward"
    /\ \E g \in [Params -> GradVals] : pgrad' = [i \in Params |-> pgrad[i] + g[i]]
    /\ lrT' = LrT(step)
    /\ pi' = 1
    /\ pc' = "adam"
    /\ UNCHANGED <<caller, docs, uchars, step, tokens, n, posId, tokenId,
                 targetId, keys, vals, li, attn, losses, lossDenom, pdata,
                 adamM, adamV, sampleIdx, sample, bvars, cvars>>

\* Faulty variant: the update forgets to reset the gradient
AdamUpdateNoReset ==
    /\ pc = "adam" /\ pi <= NumParams
    /\ adamM' = [adamM EXCEPT ![pi] = @ + 1]
    /\ adamV' = [adamV EXCEPT ![pi] = @ + 1]
    /\ pdata' = [pdata EXCEPT ![pi] = @ + 1]
    /\ pi' = pi + 1
    /\ UNCHANGED <<pc, caller, docs, uchars, step, tokens, n, posId, tokenId,
                 targetId, keys, vals, li, attn, losses, lossDenom, pgrad,
                 lrT, sampleIdx, sample, bvars, cvars>>

\* lines 299-307: one iteration of the Adam loop
AdamUpdate ==
    /\ pc = "adam" /\ pi <= NumParams
    /\ adamM' = [adamM EXCEPT ![pi] = @ + 1]
    /\ adamV' = [adamV EXCEPT ![pi] = @ + 1]
    /\ pdata' = [pdata EXCEPT ![pi] = @ + 1]
    /\ pgrad' = [pgrad EXCEPT ![pi] = 0]
    /\ pi' = pi + 1
    /\ UNCHANGED <<pc, caller, docs, uchars, step, tokens, n, posId, tokenId,
                 targetId, keys, vals, li, attn, losses, lossDenom, lrT,
                 sampleIdx, sample, bvars, cvars>>

\* lines 309-314, 278: the Adam loop is over; log the loss, step++
TrainStepEnd ==
    /\ pc = "adam" /\ pi > NumParams
    /\ step' = step + 1
    /\ pc' = "train_loop"
    /\ UNCHANGED <<caller, docs, uchars, tokens, n, posId, tokenId, targetId,
                 keys, vals, li, attn, losses, lossDenom, pgrad, pdata,
                 adamM, adamV, pi, lrT, sampleIdx, sample, bvars, cvars>>

\* lines 278, 317-318: the training loop is over
TrainLoopExit ==
    /\ pc = "train_loop" /\ step >= numSteps
    /\ sampleIdx' = 0
    /\ pc' = "sample_loop"
    /\ UNCHANGED <<caller, docs, uchars, step, tokens, n, posId, tokenId,
                 targetId, keys, vals, li, attn, losses, lossDenom, pgrad,
                 pdata, adamM, adamV, pi, lrT, sample, bvars, cvars>>

\* ------------------------------------------------------------------------
\* gpt() (lines 211-267)
\* ------------------------------------------------------------------------

\* lines 217-220: the embedding rows; a row outside its table is undefined and
\* the .map() / index on it throws
GptEmbed ==
    /\ pc = "gpt_enter"
    /\ IF tokenId >= 0 /\ tokenId < vocabSize /\ posId >= 0 /\ posId < BLOCK_SIZE
       THEN /\ li' = 1
            /\ pc' = "gpt_layer"
       ELSE /\ pc' = "crashed"
            /\ UNCHANGED li
    /\ UNCHANGED <<caller, docs, uchars, step, tokens, n, posId, tokenId,
                 targetId, keys, vals, attn, losses, lossDenom, pgrad, pdata,
                 adamM, adamV, pi, lrT, sampleIdx, sample, bvars, cvars>>

\* lines 223-229: q, k, v of this position; k and v are appended to the caches
\* (nothing reads either cache between the two pushes)
GptPushKV ==
    /\ pc = "gpt_layer"
    /\ keys' = PushedCaches.keys
    /\ vals' = PushedCaches.vals
    /\ pc' = "gpt_attn"
    /\ UNCHANGED <<caller, docs, uchars, step, tokens, n, posId, tokenId,
                 targetId, li, attn, losses, lossDenom, pgrad, pdata, adamM,
                 adamV, pi, lrT, sampleIdx, sample, bvars, cvars>>

\* lines 231-264: every head attends over the whole cache of the layer; then the
\* output projection, the MLP, and the next layer
GptAttention ==
    /\ pc = "gpt_attn"
    /\ attn' = [h \in 1..N_HEAD |-> [k |-> keys[li], v |-> vals[li]]]
    /\ li' = li + 1
    /\ pc' = IF li + 1 <= N_LAYER THEN "gpt_layer" ELSE "gpt_head"
    /\ UNCHANGED <<caller, docs, uchars, step, tokens, n, posId, tokenId,
                 targetId, keys, vals, losses, lossDenom, pgrad, pdata,
                 adamM, adamV, pi, lrT, sampleIdx, sample, bvars, cvars>>

\* line 266: the logits are returned to the caller
GptReturn ==
    /\ pc = "gpt_head"
    /\ pc' = IF caller = "train" THEN "train_ret" ELSE "sample_ret"
    /\ UNCHANGED <<caller, docs, uchars, step, tokens, n, posId, tokenId,
                 targetId, keys, vals, li, attn, losses, lossDenom, pgrad,
                 pdata, adamM, adamV, pi, lrT, sampleIdx, sample,
                 bvars, cvars>>

\* ------------------------------------------------------------------------
\* main(): the inference loop (lines 320-337)
\* ------------------------------------------------------------------------

\* lines 320-324: the loop test holds; fresh caches, start from BOS
SampleBegin ==
    /\ pc = "sample_loop" /\ sampleIdx < NumSamples
    /\ keys' = NewCaches.keys
    /\ vals' = NewCaches.vals
    /\ tokenId' = BOS
    /\ sample' = <<>>
    /\ posId' = 0
    /\ caller' = "sample"
    /\ pc' = "sample_pos"
    /\ UNCHANGED <<docs, uchars, step, tokens, n, targetId, li, attn, losses,
                 lossDenom, pgrad, pdata, adamM, adamV, pi, lrT, sampleIdx,
                 bvars, cvars>>

\* lines 326-327: the position loop's test holds; call gpt()
SampleForwardCall ==
    /\ pc = "sample_pos" /\ posId < BLOCK_SIZE
    /\ pc' = "gpt_enter"
    /\ UNCHANGED <<caller, docs, uchars, step, tokens, n, posId, tokenId,
                 targetId, keys, vals, li, attn, losses, lossDenom, pgrad,
                 pdata, adamM, adamV, pi, lrT, sampleIdx, sample,
                 bvars, cvars>>

\* line 329: the indices weightedChoice can return for a probability vector
\* over a vocabulary of vs tokens and a draw (tabulated per vocabulary size)
ChoicesFor ==
    [vs \in 1..(MaxChar + MaxAstral + 1) |->
        {WeightedChoice(w, u) : w \in WeightVectors(vs), u \in 0..(UDen - 1)}]

SampledTokens == ChoicesFor[vocabSize]

\* Faulty variant: the sampled token is appended without the test for BOS
SampleChooseNoBreak ==
    /\ pc = "sample_ret"
    /\ \E t \in SampledTokens :
          /\ tokenId' = t
          /\ sample' = Append(sample, At(uchars, tokenId'))
          /\ posId' = posId + 1
          /\ pc' = "sample_pos"
    /\ UNCHANGED <<caller, docs, uchars, step, tokens, n, targetId, keys,
                 vals, li, attn, losses, lossDenom, pgrad, pdata, adamM,
                 adamV, pi, lrT, sampleIdx, bvars, cvars>>

\* lines 328-331: gpt() has returned; draw the next token from the softmax of
\* the scaled logits; BOS ends the sample, any other token is appended
SampleChoose ==
    /\ pc = "sample_ret"
    /\ \E t \in SampledTokens :
          /\ tokenId' = t
          /\ IF tokenId' = BOS
             THEN /\ pc' = "sample_log"
                  /\ UNCHANGED <<sample, posId>>
             ELSE /\ sample' = Append(sample, At(uchars, tokenId'))
                  /\ posId' = posId + 1
                  /\ pc' = "sample_pos"
    /\ UNCHANGED <<caller, docs, uchars, step, tokens, n, targetId, keys,
                 vals, li, attn, losses, lossDenom, pgrad, pdata, adamM,
                 adamV, pi, lrT, sampleIdx, bvars, cvars>>

\* line 326: the position loop ran BLOCK_SIZE times
SampleLoopExit ==
    /\ pc = "sample_pos" /\ posId >= BLOCK_SIZE
    /\ pc' = "sample_log"
    /\ UNCHANGED <<caller, docs, uchars, step, tokens, n, posId, tokenId,
                 targetId, keys, vals, li, attn, losses, lossDenom, pgrad,
                 pdata, adamM, adamV, pi, lrT, sampleIdx, sample,
                 bvars, cvars>>

\* lines 334-336, 320: log the sample, sampleIdx++
SampleLog ==
    /\ pc = "sample_log"
    /\ sampleIdx' = sampleIdx + 1
    /\ pc' = "sample_loop"
    /\ UNCHANGED <<caller, docs, uchars, step, tokens, n, posId, tokenId,
                 targetId, keys, vals, li, attn, losses, lossDenom, pgrad,
                 pdata, adamM, adamV, pi, lrT, sample, bvars, cvars>>

\* line 338: the inference loop is over, main() returns
Finish ==
    /\ pc = "sample_loop" /\ sampleIdx >= NumSamples
    /\ pc' = "done"
    /\ UNCHANGED <<caller, docs, uchars, step, tokens, n, posId, tokenId,
                 targetId, keys, vals, li, attn, losses, lossDenom, pgrad,
                 pdata, adamM, adamV, pi, lrT, sampleIdx, sample,
                 bvars, cvars>>

Next ==
    \/ TrainStepBegin
    \/ TrainForwardCall
    \/ TrainLossPush
    \/ TrainLossMean
    \/ TrainBackward
    \/ AdamUpdate
    \/ TrainStepEnd
    \/ TrainLoopExit
    \/ GptEmbed
    \/ GptPushKV
    \/ GptAttention
    \/ GptReturn
    \/ SampleBegin
    \/ SampleForwardCall
    \/ SampleChoose
    \/ SampleLoopExit
    \/ SampleLog
    \/ Finish

Init == MInit

Spec == Init /\ [][Next]_vars

\* main() is one thread that runs to completion: it always takes its next step.
FairSpec == Init /\ [][Next]_vars /\ WF_vars(Next)

\* ------------------------------------------------------------------------
\* Claims about gpt()'s caches
\* ------------------------------------------------------------------------
\* C3: while one sequence is sampled, every layer's key and value cache holds
\* posId entries when gpt() is entered for generation step posId, posId + 1
\* entries when the layer's attention is computed and when gpt() returns; the
\* two caches of a layer always have the same length.
C3_CacheLengthPerStep ==
    /\ pc # "off" => \A l \in Layers : Len(keys[l]) = Len(vals[l])
    /\ caller = "sample" =>
         /\ pc = "gpt_enter" =>
               \A l \in Layers : Len(keys[l]) = posId /\ Len(vals[l]) = posId
         /\ pc = "gpt_layer" => Len(keys[li]) = posId /\ Len(vals[li]) = posId
         /\ pc = "gpt_attn" =>
               Len(keys[li]) = posId + 1 /\ Len(vals[li]) = posId + 1
         /\ pc \in {"gpt_head", "sample_ret"} =>
               \A l \in Layers :
                  Len(keys[l]) = posId + 1 /\ Len(vals[l]) = posId + 1

C3_Witness ==
    /\ caller = "sample" /\ pc = "gpt_attn" /\ posId = 2
    /\ Len(keys[li]) = 3 /\ Len(vals[li]) = 3

\* The cache entries of positions 0..posId of the current sequence, in order.
EntriesUpToPos == [t \in 1..(posId + 1) |-> [seq |-> CurSeq, pos |-> t - 1]]

\* C4: every training step and every sample starts with empty caches, and the
\* attention at position posId is computed, in every head, over exactly the
\* posId + 1 entries of positions 0..posId of the current sequence, in order.
C4_CausalAttention ==
    /\ (pc \in {"train_pos", "sample_pos"} /\ posId = 0) =>
          \A l \in Layers : keys[l] = <<>> /\ vals[l] = <<>>
    /\ pc = "gpt_attn" =>
          keys[li] = EntriesUpToPos /\ vals[li] = EntriesUpToPos
    /\ pc \in {"gpt_head", "train_ret", "sample_ret"} =>
          \A h \in 1..N_HEAD :
             attn[h].k = EntriesUpToPos /\ attn[h].v = EntriesUpToPos

C4_Witness ==
    /\ pc = "gpt_head" /\ caller = "sample" /\ sampleIdx = 1 /\ posId = 2
    /\ Len(attn[N_HEAD].k) = 3

\* ------------------------------------------------------------------------
\* Claims about the training loop
\* ------------------------------------------------------------------------
ForwardPcs == {"train_pos", "gpt_enter", "gpt_layer", "gpt_attn", "gpt_head",
               "train_ret"}

C5_Inv ==
    /\ (pc = "train_loop" \/ (caller = "train" /\ pc \in ForwardPcs)
        \/ pc = "backward") =>
          \A i \in Params : pgrad[i] = 0 /\ pdata[i] = step
    /\ pc = "adam" =>
          \A i \in Params :
             /\ pdata[i] = IF i < pi THEN step + 1 ELSE step
             /\ i < pi => pgrad[i] = 0

C5_Step ==
    /\ pdata' # pdata =>
          /\ pc = "adam" /\ pc' = "adam" /\ pi \in Params /\ pi' = pi + 1
          /\ pdata' = [pdata EXCEPT ![pi] = @ + 1]
          /\ pgrad' = [pgrad EXCEPT ![pi] = 0]
    /\ pgrad' # pgrad =>
          \/ pc = "backward"
          \/ pc = "adam" /\ pgrad' = [pgrad EXCEPT ![pi] = 0] /\ pdata' # pdata
    /\ (pc' = "gpt_enter" /\ pc # "gpt_enter" /\ caller' = "train") =>
          pc = "train_pos" /\ posId < n
    /\ (pc' = "backward" /\ pc # "backward") =>
          pc = "train_pos" /\ Len(losses) = n /\ posId = n
    /\ (pc = "backward" /\ pc' # "backward") => pc' = "adam" /\ pi' = 1
    /\ (pc' = "adam" /\ pc # "adam") => pc = "backward"
    /\ (pc = "adam" /\ pc' # "adam") =>
          pi = NumParams + 1 /\ pc' = "train_loop" /\ step' = step + 1

\* C5: in a training step the forward passes of all positions come first, then
\* one backward pass, then one Adam update per parameter in index order, each
\* followed by the reset of that parameter's grad. Parameter data is assigned
\* only by the Adam loop, once per parameter per step; parameter grad changes
\* only in backward and at the reset; every grad is 0 when a step starts.
C5_PhaseOrder == []C5_Inv /\ [][C5_Step]_vars

C5_Witness ==
    /\ pc = "adam" /\ step = 1 /\ pi = 2
    /\ pgrad[1] = 0 /\ pgrad[2] # 0
    /\ pdata[1] = 2 /\ pdata[2] = 1

\* learningRate in the units of lrT
BaseRate == learningRateNum * numSteps

\* C6, as stated: the rate is the base rate at the first step and has decayed
\* to 0 at the end of the step budget.
C6_Original ==
    pc = "adam" =>
        /\ step = 0 => lrT = BaseRate
        /\ step = numSteps - 1 => lrT = 0

\* C6, amended: the rate is the base rate at the first step and falls by
\* learningRate / numSteps per step, so it is learningRate / numSteps, not 0,
\* at the last step; every step uses a positive rate.
C6_LinearDecayAboveZero ==
    pc = "adam" =>
        /\ step = 0 => lrT = BaseRate
        /\ BaseRate - lrT = step * learningRateNum
        /\ step = numSteps - 1 => lrT = learningRateNum
        /\ lrT > 0

C6_Witness == pc = "adam" /\ step = numSteps - 1 /\ pi = 1 /\ lrT = learningRateNum

\* C9: a training step runs the forward pass n = min(BLOCK_SIZE, L - 1) times,
\* at positions 0..n-1 in order, each with input tokens[pos] and target
\* tokens[pos + 1]; n >= 1, the indices into tokens and into the position
\* embedding are in range, and the summed loss is divided by n.
C9_ForwardPositions ==
    (caller = "train" /\ pc \in ForwardPcs \cup {"backward", "adam"}) =>
        LET L == Len(tokens)
        IN  /\ L = Len(docs[(step % Len(docs)) + 1]) + 2
            /\ n = Min(BLOCK_SIZE, L - 1)
            /\ n >= 1
            /\ Len(losses) <= n
            /\ \A p \in 1..Len(losses) :
                  losses[p] = [pos |-> p - 1, tokenId |-> tokens[p],
                               targetId |-> tokens[p + 1]]
            /\ pc \in ForwardPcs => posId = Len(losses)
            /\ pc \in ForwardPcs \ {"train_pos"} =>
                  /\ posId < n /\ posId < BLOCK_SIZE /\ posId + 2 <= L
                  /\ tokenId = tokens[posId + 1]
                  /\ targetId = tokens[posId + 2]
            /\ pc \in {"backward", "adam"} => Len(losses) = n /\ lossDenom = n

C9_Witness ==
    /\ pc = "backward" /\ caller = "train"
    /\ n = BLOCK_SIZE /\ Len(tokens) - 1 > BLOCK_SIZE
    /\ Len(losses) = BLOCK_SIZE /\ lossDenom = BLOCK_SIZE

\* ------------------------------------------------------------------------
\* Claims about sampling
\* ------------------------------------------------------------------------
C7_Safety ==
    caller = "sample" =>
        /\ pc \in {"gpt_enter", "gpt_layer", "gpt_attn", "gpt_head", "sample_ret"} =>
              /\ posId < BLOCK_SIZE
              /\ posId = Len(sample)
              /\ tokenId = IF posId = 0 THEN BOS
                           ELSE IndexOf(uchars, sample[posId])
        /\ pc = "sample_log" =>
              /\ Len(sample) <= BLOCK_SIZE
              /\ \A i \in 1..Len(sample) : \E j \in 1..Len(uchars) :
                    sample[i] = uchars[j]

C7_Step ==
    pc = "sample_ret" =>
        IF tokenId' = BOS
        THEN pc' = "sample_log" /\ sample' = sample
        ELSE /\ pc' = "sample_pos" /\ posId' = posId + 1
             /\ sample' = Append(sample, At(uchars, tokenId'))

\* C7: a sample always ends: gpt() runs at positions 0, 1, 2, .. from BOS, the
\* first sampled BOS ends the sample and is not appended, and at most
\* BLOCK_SIZE positions run; the logged sample has at most BLOCK_SIZE
\* characters, all of them characters of the vocabulary, and gpt() is never
\* called with posId >= BLOCK_SIZE.
C7_SamplingTerminates ==
    /\ []C7_Safety
    /\ [][C7_Step]_vars
    /\ [](pc = "sample_pos" => <>(pc = "sample_log"))

C7_Witness ==
    /\ pc = "sample_log" /\ Len(sample) = BLOCK_SIZE /\ tokenId # BOS

\* ------------------------------------------------------------------------
\* Claims about weightedChoice
\* ------------------------------------------------------------------------
\* The cumulative weight of the 0-based indices 0..i.
Cumulative(w, i) == SumSeq(SubSeq(w, 1, i + 1))

\* C10: for non-negative weights with a positive total and a draw u in [0,1),
\* weightedChoice returns an index in range whose weight is positive: the
\* first index whose cumulative weight reaches u * total.
C10_NeverZeroWeight ==
    cpc = "ret" =>
        /\ cres >= 0 /\ cres < Len(cw)
        /\ cw[cres + 1] > 0
        /\ Cumulative(cw, cres) * UDen >= cu * SumSeq(cw)
        /\ \A i \in 0..(cres - 1) : Cumulative(cw, i) * UDen < cu * SumSeq(cw)

\* ------------------------------------------------------------------------
\* The token ids of main() over corpora of any characters (UnitSpec)
\*
\* A string is a sequence of UTF-16 code units. A character of the Basic
\* Multilingual Plane is one unit (1..MaxChar); any other character is a
\* surrogate pair, a high surrogate followed by a low one. The corpus is read
\* as UTF-8 (line 162), so surrogates occur in it in pairs only. This machine
\* follows the token ids through main(): the vocabulary of lines 170-172, the
\* tokens of line 280, the lookups wte[tokenId] (line 217) and probs[targetId]
\* (line 292), and the sampled token of line 329. It uses the variables of
\* main(); uchars holds strings here, of one unit or of two.
\* ------------------------------------------------------------------------
IsHighSurrogate(u) == u >= 55296 /\ u <= 56319      \* 0xD800..0xDBFF
IsLowSurrogate(u) == u >= 56320 /\ u <= 57343       \* 0xDC00..0xDFFF

\* The k-th character outside the plane: U+1F600 is <<0xD83D, 0xDE00>>
AstralChar(k) == <<55357, 56832 + (k - 1)>>

Chars == {<<c>> : c \in 1..MaxChar} \cup {AstralChar(k) : k \in 1..MaxAstral}

\* Array.prototype.join("")
RECURSIVE Join(_)
Join(ss) == IF ss = <<>> THEN <<>> ELSE Head(ss) \o Join(Tail(ss))

\* lines 162-167: the non-empty lines of len characters, and the corpora of
\* at most cnt characters in all
Lines(len) == {Join(f) : f \in [1..len -> Chars]}

RECURSIVE CorporaWithin(_)
CorporaWithin(cnt) ==
    {<<>>} \cup UNION {{<<d>> \o c : d \in Lines(len), c \in CorporaWithin(cnt - len)}
                        : len \in 1..cnt}

UnitCorpora == CorporaWithin(MaxCorpusChars) \ {<<>>}

\* The string iterator ("new Set(string)", line 170): it yields the code
\* points, a surrogate pair as one string of two units
RECURSIVE CodePoints(_)
CodePoints(s) ==
    IF s = <<>> THEN <<>>
    ELSE IF Len(s) >= 2 /\ IsHighSurrogate(s[1]) /\ IsLowSurrogate(s[2])
         THEN <<SubSeq(s, 1, 2)>> \o CodePoints(SubSeq(s, 3, Len(s)))
         ELSE <<SubSeq(s, 1, 1)>> \o CodePoints(Tail(s))

\* The order of Array.prototype.sort() on strings: by code units
RECURSIVE StringLess(_, _)
StringLess(a, b) ==
    IF a = <<>> THEN b # <<>>
    ELSE IF b = <<>> THEN FALSE
    ELSE IF Head(a) = Head(b) THEN StringLess(Tail(a), Tail(b))
    ELSE Head(a) < Head(b)

RECURSIVE SortedStrings(_)
SortedStrings(S) ==
    IF S = {} THEN <<>>
    ELSE LET x == CHOOSE y \in S : \A z \in S \ {y} : StringLess(y, z)
         IN  <<x>> \o SortedStrings(S \ {x})

\* line 170: [...new Set(docs.join(""))].sort()
CharsOf(d) ==
    LET cps == CodePoints(Join(d))
    IN  SortedStrings({cps[i] : i \in 1..Len(cps)})

\* String.prototype.split(""): one string per code unit
Split(doc) == [i \in 1..Len(doc) |-> <<doc[i]>>]

\* line 280
TokenizeUnits(doc) ==
    <<BOS>> \o [i \in 1..Len(doc) |-> IndexOf(uchars, Split(doc)[i])] \o <<BOS>>

\* wte and the probabilities have vocabSize rows (lines 191, 193, 266)
InVocab(id) == id >= 0 /\ id < vocabSize

UInit ==
    /\ docs \in UnitCorpora
    /\ uchars = CharsOf(docs)
    /\ pc = "train_loop" /\ caller = "none" /\ step = 0
    /\ tokens = <<>> /\ n = 0 /\ posId = 0 /\ tokenId = 0 /\ targetId = 0
    /\ keys = <<>> /\ vals = <<>> /\ li = 0 /\ attn = <<>> /\ losses = <<>>
    /\ lossDenom = 0 /\ pgrad = <<>> /\ pdata = <<>> /\ adamM = <<>> /\ adamV = <<>>
    /\ pi = 0 /\ lrT = 0 /\ sampleIdx = 0 /\ sample = <<>>
    /\ BIdle /\ CIdle

\* lines 278-281
UnitTrainStep ==
    /\ pc = "train_loop" /\ step < numSteps
    /\ tokens' = TokenizeUnits(docs[(step % Len(docs)) + 1])
    /\ n' = TrainN(tokens')
    /\ posId' = 0
    /\ pc' = "train_pos"
    /\ UNCHANGED <<caller, docs, uchars, step, tokenId, targetId, keys, vals, li,
                 attn, losses, lossDenom, pgrad, pdata, adamM, adamV, pi, lrT,
                 sampleIdx, sample, bvars, cvars>>

\* lines 287-292: gpt() maps over wte[tokenId] (line 217) and the loss takes
\* probs[targetId].log() (line 292); either throws on undefined
UnitTrainLookup ==
    /\ pc = "train_pos" /\ posId < n
    /\ tokenId' = At(tokens, posId)
    /\ targetId' = At(tokens, posId + 1)
    /\ IF InVocab(tokenId') /\ InVocab(targetId')
       THEN posId' = posId + 1 /\ pc' = "train_pos"
       ELSE posId' = posId /\ pc' = "crashed"
    /\ UNCHANGED <<caller, docs, uchars, step, tokens, n, keys, vals, li, attn,
                 losses, lossDenom, pgrad, pdata, adamM, adamV, pi, lrT,
                 sampleIdx, sample, bvars, cvars>>

\* lines 294-314: the rest of the step does not touch the token ids
UnitTrainStepEnd ==
    /\ pc = "train_pos" /\ posId >= n
    /\ step' = step + 1
    /\ pc' = "train_loop"
    /\ UNCHANGED <<caller, docs, uchars, tokens, n, posId, tokenId, targetId,
                 keys, vals, li, attn, losses, lossDenom, pgrad, pdata, adamM,
                 adamV, pi, lrT, sampleIdx, sample, bvars, cvars>>

\* lines 320-325: a sample starts from BOS
UnitTrainExit ==
    /\ pc = "train_loop" /\ step >= numSteps
    /\ tokenId' = BOS
    /\ posId' = 0
    /\ pc' = "sample_pos"
    /\ UNCHANGED <<caller, docs, uchars, step, tokens, n, targetId, keys, vals,
                 li, attn, losses, lossDenom, pgrad, pdata, adamM, adamV, pi,
                 lrT, sampleIdx, sample, bvars, cvars>>

\* lines 326-327: gpt(tokenId, posId, ..) reads wte[tokenId]
UnitSampleLookup ==
    /\ pc = "sample_pos" /\ posId < BLOCK_SIZE
    /\ pc' = IF InVocab(tokenId) THEN "sample_ret" ELSE "crashed"
    /\ UNCHANGED <<caller, docs, uchars, step, tokens, n, posId, tokenId,
                 targetId, keys, vals, li, attn, losses, lossDenom, pgrad,
                 pdata, adamM, adamV, pi, lrT, sampleIdx, sample, bvars, cvars>>

\* lines 328-330: the sampled token; BOS ends the sample
UnitSampleChoose ==
    /\ pc = "sample_ret"
    /\ \E t \in SampledTokens :
          /\ tokenId' = t
          /\ IF t = BOS
             THEN posId' = posId /\ pc' = "done"
             ELSE posId' = posId + 1 /\ pc' = "sample_pos"
    /\ UNCHANGED <<caller, docs, uchars, step, tokens, n, targetId, keys, vals,
                 li, attn, losses, lossDenom, pgrad, pdata, adamM, adamV, pi,
                 lrT, sampleIdx, sample, bvars, cvars>>

\* line 326: the position loop ends at BLOCK_SIZE
UnitSampleExit ==
    /\ pc = "sample_pos" /\ posId >= BLOCK_SIZE
    /\ pc' = "done"
    /\ UNCHANGED <<caller, docs, uchars, step, tokens, n, posId, tokenId,
                 targetId, keys, vals, li, attn, losses, lossDenom, pgrad,
                 pdata, adamM, adamV, pi, lrT, sampleIdx, sample, bvars, cvars>>

UNext ==
    \/ UnitTrainStep
    \/ UnitTrainLookup
    \/ UnitTrainStepEnd
    \/ UnitTrainExit
    \/ UnitSampleLookup
    \/ UnitSampleChoose
    \/ UnitSampleExit

UnitSpec == UInit /\ [][UNext]_vars

\* ------------------------------------------------------------------------
\* Claims about the token ids
\* ------------------------------------------------------------------------
\* C11: for any corpus of non-empty lines, every token id of a training
\* sequence and every sampled token id lies in 0..vocabSize-1, so that the
\* lookups wte[tokenId] and probs[targetId] never read outside their arrays.
C11_TokenIdsInRange ==
    /\ pc # "crashed"
    /\ \A i \in 1..Len(tokens) : InVocab(tokens[i])
    /\ pc \in {"sample_pos", "sample_ret", "done"} => InVocab(tokenId)

\* The sampler's half of C11 on its own: a sampled token id is in range.
SampledIdInRange ==
    pc \in {"sample_pos", "sample_ret", "done"} => InVocab(tokenId)

\* The corpora on which the training half holds: every character is one unit.
OneUnitChars == \A i \in 1..Len(uchars) : Len(uchars[i]) = 1

TrainIdsInRangeOnOneUnitChars ==
    OneUnitChars => pc # "crashed" /\ \A i \in 1..Len(tokens) : InVocab(tokens[i])

====
